---- MODULE Spec2Model ----
(***************************************************************************)
(* Model of the miniprint V5G thermal printer driver: the packet codec     *)
(* (CmdPacket::to_vec, NotifyResponse::parse, crc8), the row packing of    *)
(* the rasterizer, and the print job (command sequence, chunked writes)    *)
(* running next to the notification listener task.                         *)
(*                                                                         *)
(* Bytes are naturals in 0..255.  Rust slices are 0-indexed; TLA+          *)
(* sequences are 1-indexed, so buf[i] of the source is At(buf, i) here.    *)
(***************************************************************************)
EXTENDS Integers, Sequences, FiniteSets, TLC

(***************************************************************************)
(* Byte arithmetic                                                         *)
(***************************************************************************)

\* u8 ^ u8, bit by bit (v5g.rs:38 `crc ^ x`)
RECURSIVE XorBits(_, _, _)
XorBits(a, b, n) ==
    IF n = 0 THEN 0
    ELSE ((a + b) % 2) + 2 * XorBits(a \div 2, b \div 2, n - 1)

Xor(a, b) ==
    XorBits(a, b, 8)

\* u8 | u8, bit by bit (v5g.rs:280 `row_buf[..] |= ...`)
RECURSIVE OrBits(_, _, _)
OrBits(a, b, n) ==
    IF n = 0 THEN 0
    ELSE (IF a % 2 = 1 \/ b % 2 = 1 THEN 1 ELSE 0)
         + 2 * OrBits(a \div 2, b \div 2, n - 1)

Or(a, b) ==
    OrBits(a, b, 8)

\* 0-indexed read of a slice element that is in bounds
At(buf, i) ==
    buf[i + 1]

\* Rust's bounds check on buf[i]
InBounds(buf, i) ==
    i >= 0 /\ i < Len(buf)

(***************************************************************************)
(* Checksum (v5g.rs:12-42)                                                 *)
(***************************************************************************)

CRC_TABLE ==
    <<
         0,   7,  14,   9,  28,  27,  18,  21,  56,  63,  54,  49,  36,  35,  42,  45,
       112, 119, 126, 121, 108, 107,  98, 101,  72,  79,  70,  65,  84,  83,  90,  93,
       224, 231, 238, 233, 252, 251, 242, 245, 216, 223, 214, 209, 196, 195, 202, 205,
       144, 151, 158, 153, 140, 139, 130, 133, 168, 175, 166, 161, 180, 179, 186, 189,
       199, 192, 201, 206, 219, 220, 213, 210, 255, 248, 241, 246, 227, 228, 237, 234,
       183, 176, 185, 190, 171, 172, 165, 162, 143, 136, 129, 134, 147, 148, 157, 154,
        39,  32,  41,  46,  59,  60,  53,  50,  31,  24,  17,  22,   3,   4,  13,  10,
        87,  80,  89,  94,  75,  76,  69,  66, 111, 104,  97, 102, 115, 116, 125, 122,
       137, 142, 135, 128, 149, 146, 155, 156, 177, 182, 191, 184, 173, 170, 163, 164,
       249, 254, 247, 240, 229, 226, 235, 236, 193, 198, 207, 200, 221, 218, 211, 212,
       105, 110, 103,  96, 117, 114, 123, 124,  81,  86,  95,  88,  77,  74,  67,  68,
        25,  30,  23,  16,   5,   2,  11,  12,  33,  38,  47,  40,  61,  58,  51,  52,
        78,  73,  64,  71,  82,  85,  92,  91, 118, 113, 120, 127, 106, 109, 100,  99,
        62,  57,  48,  55,  34,  37,  44,  43,   6,   1,   8,  15,  26,  29,  20,  19,
       174, 169, 160, 167, 178, 181, 188, 187, 150, 145, 152, 159, 138, 141, 132, 131,
       222, 217, 208, 215, 194, 197, 204, 203, 230, 225, 232, 239, 250, 253, 244, 243
    >>

\* CrcStep that indexes the table by the byte alone
CrcStep_IgnoresCrc(crc, x) ==
    CRC_TABLE[x + 1]

\* CrcStep without the table lookup
CrcStep_NoTable(crc, x) ==
    Xor(crc, x)

\* CRC_TABLE[(crc ^ x) as usize]
CrcStep(crc, x) ==
    CRC_TABLE[Xor(crc, x) + 1]

\* the loop `for x in arr { crc = CRC_TABLE[..] }` run over arr[lo..hi]
\* (1-indexed, inclusive) from the value crc: first over the lower half of
\* the range, then over the upper half; crc is a u8 throughout
RECURSIVE CrcLoop(_, _, _, _)
CrcLoop(crc, arr, lo, hi) ==
    IF lo > hi THEN crc
    ELSE IF lo = hi THEN CrcStep(crc, arr[lo])
    ELSE LET mid == (lo + hi) \div 2
             lower == CrcLoop(crc, arr, lo, mid)
         IN  IF lower \in 0..255 THEN CrcLoop(lower, arr, mid + 1, hi)
             ELSE lower

\* fn crc8: `let mut crc = 0`, the loop over all of arr, `crc`
crc8(arr) ==
    CrcLoop(0, arr, 1, Len(arr))

(***************************************************************************)
(* Command catalog (v5g.rs:44-139)                                         *)
(***************************************************************************)

\* enum CommandId, #[repr(u8)]
Paper == 161
GetDeviceState == 163
Quality == 164
Energy == 175
Lattice == 166
PrintSpeed == 189
PrintModeId == 190
BitmapData == 162

CommandIds ==
    {Paper, GetDeviceState, Quality, Energy, Lattice, PrintSpeed, PrintModeId, BitmapData}

\* enum PrintMode, #[repr(u8)]
Image == 0
Text == 1

\* Result values: a tag and a payload
Ok(v) ==
    [tag |-> "Ok", val |-> v]

\* CmdPacket::new
new(id, data) ==
    [id |-> id, data |-> data]

\* quality whose assert checks the lower limit only
quality_NoUpperLimit(level) ==
    IF level >= 1
    THEN Ok(new(Quality, <<(49 + level) % 256>>))
    ELSE [tag |-> "Panic", val |-> new(Quality, <<>>)]

\* CmdPacket::quality; the assert panics outside [1, 5]
quality(level) ==
    IF level >= 1 /\ level <= 5
    THEN Ok(new(Quality, <<49 + level>>))
    ELSE [tag |-> "Panic", val |-> new(Quality, <<>>)]

\* energy with the high byte first
energy_BigEndian(e) ==
    new(Energy, <<(e \div 256) % 256, e % 256>>)

\* CmdPacket::energy, energy: u16
energy(e) ==
    new(Energy, <<e % 256, (e \div 256) % 256>>)

\* CmdPacket::print_speed
print_speed(speed) ==
    new(PrintSpeed, <<speed>>)

\* CmdPacket::print_mode
print_mode(mode) ==
    new(PrintModeId, <<mode>>)

\* CmdPacket::lattice_start
lattice_start ==
    new(Lattice, <<170, 85, 23, 56, 68, 95, 95, 95, 68, 56, 44>>)

\* CmdPacket::lattice_end
lattice_end ==
    new(Lattice, <<170, 85, 23, 0, 0, 0, 0, 0, 0, 0, 23>>)

(***************************************************************************)
(* Encoder (v5g.rs:75-98)                                                  *)
(***************************************************************************)

\* the six header bytes pushed at v5g.rs:82-88
Header(id, dlen) ==
    <<81, 120, id, 0, dlen % 256, (dlen \div 256) % 256>>

\* to_vec with the length pushed high byte first
to_vec_BigEndianLen(pkt) ==
    LET crc == crc8(pkt.data)
        dlen == Len(pkt.data)
    IN  Ok(<<81, 120, pkt.id, 0, (dlen \div 256) % 256, dlen % 256>>
           \o pkt.data \o <<crc, 255>>)

\* CmdPacket::to_vec: header, data, footer; always Ok
to_vec(pkt) ==
    LET crc == crc8(pkt.data)
        dlen == Len(pkt.data)
    IN  Ok(Header(pkt.id, dlen) \o pkt.data \o <<crc, 255>>)

(***************************************************************************)
(* Decoder (v5g.rs:141-225)                                                *)
(***************************************************************************)

\* Err(ParseError::...) without a field
Err(e) ==
    [tag |-> e, val |-> <<>>]

\* Err(ParseError::BadDirection(dir))
BadDirection(dir) ==
    [tag |-> "BadDirection", val |-> <<dir>>]

\* Ok(NotifyResponse::DeviceState(data))
DeviceState(data) ==
    [tag |-> "DeviceState", val |-> data]

\* an index or slice out of bounds: the thread panics
Panic ==
    [tag |-> "Panic", val |-> <<>>]

\* buf[from..to], 0-indexed, end exclusive
Slice(buf, from, to) ==
    [k \in 1..(to - from) |-> buf[from + k]]

\* v5g.rs:220-223, the match on the opcode
ParseId(id, data) ==
    IF id = 163 THEN DeviceState(data) ELSE Err("UnknownType")

\* ParseBody with the terminator checked before the checksum
ParseBody_TerminatorFirst(buf, id, i, dlen) ==
    LET data == Slice(buf, i, i + dlen)
        j == i + dlen
    IN  IF ~InBounds(buf, j + 1) THEN Panic
        ELSE IF At(buf, j + 1) # 255 THEN Err("BadTerminator")
        ELSE IF At(buf, j) # crc8(data) THEN Err("Checksum")
        ELSE ParseId(id, data)

\* v5g.rs:206-218, from the copy of the payload to the terminator check;
\* i is 6 and 6 + dlen <= len - 2 was checked by the caller
ParseBody(buf, id, i, dlen) ==
    LET data == Slice(buf, i, i + dlen)
        j == i + dlen
    IN  IF ~InBounds(buf, j) THEN Panic
        ELSE IF At(buf, j) # crc8(data) THEN Err("Checksum")
        ELSE IF ~InBounds(buf, j + 1) THEN Panic
        ELSE IF At(buf, j + 1) # 255 THEN Err("BadTerminator")
        ELSE ParseId(id, data)

\* Overread that forgets the two footer bytes
Overread_NoFooter(buf, i, dlen) ==
    i + dlen > Len(buf)

\* Overread that also rejects bytes after the footer
Overread_RejectsTrailing(buf, i, dlen) ==
    i + dlen # Len(buf) - 2

\* Overread that rejects a payload ending exactly at the footer
Overread_Strict(buf, i, dlen) ==
    i + dlen >= Len(buf) - 2

\* v5g.rs:202, `i + dlen as usize > buf.len() - 2` (buf.len() >= 6 here)
Overread(buf, i, dlen) ==
    i + dlen > Len(buf) - 2

\* v5g.rs:197-204, the declared length and the overread check
ParseLength(buf, id, i) ==
    IF ~InBounds(buf, i) \/ ~InBounds(buf, i + 1) THEN Panic
    ELSE LET dlen == At(buf, i) + 256 * At(buf, i + 1)
         IN  IF Overread(buf, i + 2, dlen) THEN Err("InvalidLength")
             ELSE ParseBody(buf, id, i + 2, dlen)

\* ParseDirection with the direction checked only for unknown opcodes
ParseDirection_AfterOpcode(buf, i) ==
    IF ~InBounds(buf, i) \/ ~InBounds(buf, i + 1) THEN Panic
    ELSE LET id == At(buf, i)
             pktdir == At(buf, i + 1)
         IN  IF id # 163 /\ pktdir # 1 THEN BadDirection(pktdir)
             ELSE ParseLength(buf, id, i + 2)

\* v5g.rs:188-195, opcode and direction
ParseDirection(buf, i) ==
    IF ~InBounds(buf, i) \/ ~InBounds(buf, i + 1) THEN Panic
    ELSE LET id == At(buf, i)
             pktdir == At(buf, i + 1)
         IN  IF pktdir # 1 THEN BadDirection(pktdir)
             ELSE ParseLength(buf, id, i + 2)

\* NotifyResponse::parse; `buf[0] != 0x51 || buf[1] != 0x78` short-circuits
parse(buf) ==
    IF ~InBounds(buf, 0) THEN Panic
    ELSE IF At(buf, 0) # 81 THEN Err("BadMagic")
    ELSE IF ~InBounds(buf, 1) THEN Panic
    ELSE IF At(buf, 1) # 120 THEN Err("BadMagic")
    ELSE ParseDirection(buf, 2)

(***************************************************************************)
(* Rasterizer: the row packing loop (v5g.rs:275-287, main.rs:143-151)      *)
(***************************************************************************)

TX_SIZE == 60

HORIZ_RESOLUTION == 384

\* an image is [width, height, rows]; rows[j + 1][i + 1] is get_pixel(i, j).0[0]
get_pixel(img, i, j) ==
    img.rows[j + 1][i + 1]

\* [0u8; HORIZ_RESOLUTION as usize / 8]
ZeroRow ==
    [b \in 1..(HORIZ_RESOLUTION \div 8) |-> 0]

\* Burn with intensity 127 counted as dark
Burn_Inclusive(px) ==
    IF px <= 127 THEN 128 ELSE 0

\* the mask or-ed in for one pixel: 1 = burn this dot
Burn(px) ==
    IF px < 127 THEN 128 ELSE 0

\* PackPixel that shifts left and sets the low bit (most significant bit first)
PackPixel_ShiftLeft(row_buf, i, px) ==
    LET shifted == (At(row_buf, i \div 8) * 2) % 256
    IN  [row_buf EXCEPT ![i \div 8 + 1] = Or(shifted, Burn(px) \div 128)]

\* one iteration of the inner loop on pixel i with intensity px:
\* row_buf[i / 8] >>= 1; row_buf[i / 8] |= mask
PackPixel(row_buf, i, px) ==
    LET shifted == At(row_buf, i \div 8) \div 2
    IN  [row_buf EXCEPT ![i \div 8 + 1] = Or(shifted, Burn(px))]

\* the inner loop `for i in 0..img.width()` run for i in lo..hi-1 on row j,
\* from the buffer acc: first the lower half of the range, then the upper
\* half; indexing row_buf past its end panics
RECURSIVE PackLoop(_, _, _, _, _)
PackLoop(acc, img, j, lo, hi) ==
    IF acc.tag # "Ok" \/ lo >= hi THEN acc
    ELSE IF hi = lo + 1
    THEN IF ~InBounds(acc.val, lo \div 8) THEN Panic
         ELSE Ok(PackPixel(acc.val, lo, get_pixel(img, lo, j)))
    ELSE LET mid == (lo + hi) \div 2
         IN  PackLoop(PackLoop(acc, img, j, lo, mid), img, j, mid, hi)

\* the body of the outer loop for row j, up to the packed row_buf
PackRow(img, j) ==
    PackLoop(Ok(ZeroRow), img, j, 0, img.width)

\* the outer loop `for j in 0..img.height()` run for its first m rows:
\* the BitmapData commands pushed so far
RECURSIVE RowCmds(_, _)
RowCmds(img, m) ==
    IF m = 0 THEN Ok(<<>>)
    ELSE LET prev == RowCmds(img, m - 1)
             row == PackRow(img, m - 1)
         IN  IF prev.tag # "Ok" THEN prev
             ELSE IF row.tag # "Ok" THEN Panic
             ELSE Ok(Append(prev.val, new(BitmapData, row.val)))

(***************************************************************************)
(* The print job: command list and outbound stream                         *)
(* (v5g.rs:260-303 Driver::print, main.rs:128-167 the inline job)          *)
(***************************************************************************)

\* struct PrintSettings and its Default
DefaultSettings ==
    [energy |-> 10000, print_mode |-> Image, print_speed |-> 10,
     feeds_after |-> 2, quality |-> 5]

\* PrintCmds that reads every field of settings
PrintCmds_UsesSettings(img, settings) ==
    LET rows == RowCmds(img, img.height)
    IN  IF rows.tag # "Ok" THEN rows
        ELSE Ok(<<quality(settings.quality).val, lattice_start,
                  energy(settings.energy), print_mode(settings.print_mode),
                  print_speed(settings.print_speed)>>
                \o rows.val
                \o [n \in 1..settings.feeds_after |-> new(Paper, <<48, 0>>)]
                \o <<lattice_end, new(GetDeviceState, <<0>>)>>)

\* PrintCmds with the configuration pushed before the lattice start
PrintCmds_ConfigFirst(img, settings) ==
    LET rows == RowCmds(img, img.height)
    IN  IF rows.tag # "Ok" THEN rows
        ELSE Ok(<<quality(5).val, energy(10000), print_mode(Image),
                  print_speed(10), lattice_start>>
                \o rows.val
                \o <<new(Paper, <<48, 0>>), new(Paper, <<48, 0>>),
                     lattice_end, new(GetDeviceState, <<0>>)>>)

\* Driver::print, v5g.rs:264-298: the command list; settings is not read
PrintCmds(img, settings) ==
    LET rows == RowCmds(img, img.height)
    IN  IF rows.tag # "Ok" THEN rows
        ELSE Ok(<<quality(5).val, lattice_start, energy(10000),
                  print_mode(Image), print_speed(10)>>
                \o rows.val
                \o <<new(Paper, <<48, 0>>), new(Paper, <<48, 0>>),
                     lattice_end, new(GetDeviceState, <<0>>)>>)

\* MainCmds with a single paper feed
MainCmds_OnePaper(img) ==
    LET rows == RowCmds(img, img.height)
    IN  IF rows.tag # "Ok" THEN rows
        ELSE Ok(<<quality(5).val, lattice_start, energy(10000),
                  print_mode(Image), print_speed(10)>>
                \o rows.val
                \o <<new(Paper, <<48, 0>>),
                     lattice_end, new(GetDeviceState, <<0>>)>>)

\* main, main.rs:128-162: the same list, built inline
MainCmds(img) ==
    LET rows == RowCmds(img, img.height)
    IN  IF rows.tag # "Ok" THEN rows
        ELSE Ok(<<quality(5).val, lattice_start, energy(10000),
                  print_mode(Image), print_speed(10)>>
                \o rows.val
                \o <<new(Paper, <<48, 0>>), new(Paper, <<48, 0>>),
                     lattice_end, new(GetDeviceState, <<0>>)>>)

\* `for pkt in pkts { buf.append(&mut pkt.to_vec()?) }` over the first n
\* packets (v5g.rs:300-303, main.rs:164-167); the ? returns the first Err
RECURSIVE Encode(_, _)
Encode(pkts, n) ==
    IF n = 0 THEN Ok(<<>>)
    ELSE LET prev == Encode(pkts, n - 1)
             one == to_vec(pkts[n])
         IN  IF prev.tag # "Ok" THEN prev
             ELSE IF one.tag # "Ok" THEN one
             ELSE Ok(prev.val \o one.val)

\* the outbound byte stream of a job
Stream(cmds) ==
    IF cmds.tag # "Ok" THEN cmds ELSE Encode(cmds.val, Len(cmds.val))

\* NumChunks that drops a trailing partial chunk
NumChunks_Floor(buf) ==
    Len(buf) \div TX_SIZE

\* buf.chunks(TX_SIZE): the number of chunks and the k-th chunk (k from 0)
NumChunks(buf) ==
    (Len(buf) + TX_SIZE - 1) \div TX_SIZE

Chunk(buf, k) ==
    LET from == k * TX_SIZE
        to == IF from + TX_SIZE < Len(buf) THEN from + TX_SIZE ELSE Len(buf)
    IN  Slice(buf, from, to)

(***************************************************************************)
(* State                                                                   *)
(***************************************************************************)

VARIABLES
    \* codec harness
    cmd,        \* the CmdPacket handed to to_vec
    frame,      \* what to_vec returned
    buf,        \* the buffer handed to NotifyResponse::parse
    origin,     \* where buf comes from: "cmd" (none yet), "wire", "loopback", "echo"
    result,     \* what parse returned
    \* catalog and checksum harness
    call,       \* the constructor called and its argument
    made,       \* the CmdPacket it returned, or its panic
    crcIn,      \* two byte strings <<p1, p2>>
    crcOut,     \* crc8 of p1, of p2, of p1 ++ p2 and of p2 ++ p1
    \* rasterizer harness
    row,        \* a one-row image
    row_buf,    \* the packed row
    \* print job and listener task
    img,        \* the raster handed to the job
    settings,   \* the PrintSettings handed to Driver::print
    job,        \* "driver" (Driver::print) or "main" (the inline job of main)
    cmds,       \* the command list `pkts` / `printbuf`
    logInfo,    \* whether the info log level is enabled
    stream,     \* the encoded command stream `buf` / `cmdbuf`
    pc,         \* position of the job
    k,          \* index of the chunk the write loop is at
    inFlight,   \* indices of chunks whose write was started and not completed
    written,    \* chunks the transport accepted, in order
    slept,      \* number of pacing delays that elapsed
    ret,        \* what the job returned
    inbound,    \* notifications pushed by the transport, not yet taken
    pushed,     \* number of notifications pushed so far
    closed,     \* the notification stream has ended
    lpc,        \* position of the listener task
    decoded     \* what the listener did with each notification it took

codecVars == <<cmd, frame, buf, origin, result>>
catalogVars == <<call, made, crcIn, crcOut>>
rasterVars == <<row, row_buf>>
jobVars == <<img, settings, job, cmds, stream, pc, k, inFlight, written, slept, ret>>
listenerVars == <<logInfo, inbound, pushed, closed, lpc, decoded>>
vars == <<codecVars, catalogVars, rasterVars, jobVars, listenerVars>>

\* a Result that is not there yet
None ==
    [tag |-> "None", val |-> <<>>]

\* all sequences over S of length at most n
RECURSIVE SeqsUpTo(_, _)
SeqsUpTo(S, n) ==
    IF n = 0 THEN {<<>>}
    ELSE LET shorter == SeqsUpTo(S, n - 1)
         IN  shorter \cup {Append(q, x) : q \in shorter, x \in S}

EmptyImage ==
    [width |-> 0, height |-> 0, rows |-> <<>>]

CodecIdle ==
    /\ cmd = new(Paper, <<>>)
    /\ frame = None
    /\ buf = <<>>
    /\ origin = "off"
    /\ result = None

\* no CmdPacket made yet
NoCmd ==
    [tag |-> "None", val |-> new(Quality, <<>>)]

CatalogIdle ==
    /\ call = [fn |-> "off", arg |-> 0]
    /\ made = NoCmd
    /\ crcIn = <<>>
    /\ crcOut = None

RasterIdle ==
    /\ row = EmptyImage
    /\ row_buf = None

JobIdle ==
    /\ img = EmptyImage
    /\ settings = DefaultSettings
    /\ job = "off"
    /\ cmds = None
    /\ stream = None
    /\ pc = "off"
    /\ k = 0
    /\ inFlight = {}
    /\ written = <<>>
    /\ slept = 0
    /\ ret = None

ListenerIdle ==
    /\ logInfo = FALSE
    /\ inbound = <<>>
    /\ pushed = 0
    /\ closed = FALSE
    /\ lpc = "off"
    /\ decoded = <<>>

(***************************************************************************)
(* Codec: to_vec on bounded commands, parse on bounded buffers             *)
(***************************************************************************)

MaxPayload == 3
MaxWirePayload == 2

PayloadBytes == {0, 1, 255}

\* a payload of n bytes 1, 2, 3, ... (mod 256)
Ramp(n) ==
    [i \in 1..n |-> i % 256]

Payloads ==
    SeqsUpTo(PayloadBytes, MaxPayload)
        \cup {<<48, 0>>, <<72, 0>>}
        \cup {Ramp(n) : n \in {255, 256, 600}}

\* the longest payload whose length fits the 16-bit field, and the next one
Cmds ==
    {new(id, p) : id \in CommandIds, p \in Payloads}
        \cup {new(id, Ramp(n)) : id \in {GetDeviceState, Paper},
                                 n \in {65535, 65536}}

\* inbound buffers: every field right or wrong, cut at every length
WireFrames ==
    {<<m0, m1, id, dir, lo, hi>> \o p \o <<Xor(crc8(p), c), t>> \o trail :
        m0 \in {81, 0}, m1 \in {120, 0}, id \in {GetDeviceState, Paper},
        dir \in {0, 1, 2}, lo \in 0..(MaxWirePayload + 1), hi \in {0, 1},
        p \in SeqsUpTo({0, 255}, MaxWirePayload),
        c \in {0, 170}, t \in {255, 0}, trail \in {<<>>, <<255>>}}

Buffers ==
    {SubSeq(f, 1, IF n < Len(f) THEN n ELSE Len(f)) :
        f \in WireFrames, n \in 0..(MaxWirePayload + 9)}

InitCodec ==
    /\ \/ /\ cmd \in Cmds
          /\ buf = <<>>
          /\ origin = "cmd"
       \/ /\ cmd = new(Paper, <<>>)
          /\ buf \in Buffers
          /\ origin = "wire"
    /\ frame = None
    /\ result = None
    /\ CatalogIdle
    /\ RasterIdle
    /\ JobIdle
    /\ ListenerIdle

\* CmdPacket::to_vec on cmd
ToVec ==
    /\ origin = "cmd"
    /\ frame = None
    /\ frame' = to_vec(cmd)
    /\ UNCHANGED <<cmd, buf, origin, result, catalogVars, rasterVars, jobVars, listenerVars>>

\* the frame comes back with its direction byte (offset 3) set to 1
Loopback ==
    /\ origin = "cmd"
    /\ frame.tag = "Ok"
    /\ buf' = [frame.val EXCEPT ![4] = 1]
    /\ origin' = "loopback"
    /\ UNCHANGED <<cmd, frame, result, catalogVars, rasterVars, jobVars, listenerVars>>

\* the frame is handed to the decoder as to_vec made it
Echo ==
    /\ origin = "cmd"
    /\ frame.tag = "Ok"
    /\ buf' = frame.val
    /\ origin' = "echo"
    /\ UNCHANGED <<cmd, frame, result, catalogVars, rasterVars, jobVars, listenerVars>>

\* NotifyResponse::parse on buf
Parse ==
    /\ origin \in {"wire", "loopback", "echo"}
    /\ result = None
    /\ result' = parse(buf)
    /\ UNCHANGED <<cmd, frame, buf, origin, catalogVars, rasterVars, jobVars, listenerVars>>

NextCodec ==
    \/ ToVec
    \/ Loopback
    \/ Echo
    \/ Parse

SpecCodec ==
    InitCodec /\ [][NextCodec]_vars

(***************************************************************************)
(* Rasterizer: the row packing on bounded rows                             *)
(***************************************************************************)

MaxDenseWidth == 4
MaxBitWidth == 9

\* a one-row image with the given pixels
OneRow(pixels) ==
    [width |-> Len(pixels), height |-> 1, rows |-> <<pixels>>]

\* a row of width w where the pixels of D have intensity d, the others e
Pattern(w, D, d, e) ==
    [i \in 1..w |-> IF (i - 1) \in D THEN d ELSE e]

WideWidths ==
    {HORIZ_RESOLUTION - 7, HORIZ_RESOLUTION - 1, HORIZ_RESOLUTION,
     HORIZ_RESOLUTION + 1}

Rows ==
    {OneRow(q) : q \in SeqsUpTo({0, 126, 127, 255}, MaxDenseWidth)}
        \cup {OneRow(q) : q \in SeqsUpTo({126, 127}, MaxBitWidth)}
        \cup {OneRow(Pattern(w, {c}, 0, 255)) : w \in WideWidths, c \in -1..HORIZ_RESOLUTION}
        \cup {OneRow(Pattern(w, {c}, 127, 126)) : w \in WideWidths, c \in -1..HORIZ_RESOLUTION}
        \cup {OneRow(Pattern(w, {}, e, e)) : w \in WideWidths, e \in {0, 255}}

InitRaster ==
    /\ row \in Rows
    /\ row_buf = None
    /\ CodecIdle
    /\ CatalogIdle
    /\ JobIdle
    /\ ListenerIdle

\* the row packing of row 0 of the image
Pack ==
    /\ row_buf = None
    /\ row_buf' = PackRow(row, 0)
    /\ UNCHANGED <<row, codecVars, catalogVars, jobVars, listenerVars>>

NextRaster ==
    Pack

SpecRaster ==
    InitRaster /\ [][NextRaster]_vars

(***************************************************************************)
(* Properties of the codec                                                 *)
(***************************************************************************)

\* C1: for a command (id, p) with len(p) = N <= 65535, to_vec returns Ok with
\* exactly N + 8 bytes [0x51, 0x78, id, 0x00, N mod 256, N div 256] ++ p ++
\* [crc8(p), 0xFF]; the four golden vectors of the tests come out byte for byte.
C1_ToVecLayout ==
    (frame # None /\ Len(cmd.data) <= 65535) =>
        /\ frame.tag = "Ok"
        /\ Len(frame.val) = Len(cmd.data) + 8
        /\ frame.val = <<81, 120, cmd.id, 0,
                         Len(cmd.data) % 256, Len(cmd.data) \div 256>>
                       \o cmd.data \o <<crc8(cmd.data), 255>>
        /\ cmd = new(Paper, <<48, 0>>)
              => frame.val = <<81, 120, 161, 0, 2, 0, 48, 0, 249, 255>>
        /\ cmd = new(Paper, <<72, 0>>)
              => frame.val = <<81, 120, 161, 0, 2, 0, 72, 0, 243, 255>>
        /\ cmd = print_mode(Image)
              => frame.val = <<81, 120, 190, 0, 1, 0, 0, 0, 255>>
        /\ cmd = print_mode(Text)
              => frame.val = <<81, 120, 190, 0, 1, 0, 1, 7, 255>>

\* a 600-byte payload was encoded: the length field is 88, 2
C1_Witness ==
    /\ frame.tag = "Ok"
    /\ Len(cmd.data) = 600
    /\ frame.val[5] = 88
    /\ frame.val[6] = 2
    /\ Len(frame.val) = 608

\* C2: on a buffer of at least 8 bytes parse reports the earliest failing
\* check in the order magic, direction, declared length, checksum,
\* terminator, opcode, whatever later checks would fail too; it returns
\* DeviceState only when none fails.
C2_FirstFailureWins ==
    (Len(buf) >= 8 /\ result # None) =>
        LET declared == buf[5] + 256 * buf[6]
        IN  IF buf[1] # 81 \/ buf[2] # 120 THEN result = Err("BadMagic")
            ELSE IF buf[4] # 1 THEN result = BadDirection(buf[4])
            ELSE IF declared + 8 > Len(buf) THEN result = Err("InvalidLength")
            ELSE IF buf[7 + declared] # crc8(SubSeq(buf, 7, 6 + declared))
                 THEN result = Err("Checksum")
            ELSE IF buf[8 + declared] # 255 THEN result = Err("BadTerminator")
            ELSE IF buf[3] # 163 THEN result = Err("UnknownType")
            ELSE result.tag = "DeviceState"

\* a buffer with bad magic, a bad checksum and a bad terminator was parsed
C2_Witness ==
    /\ result = Err("BadMagic")
    /\ Len(buf) = 9
    /\ buf[1] # 81
    /\ buf[4] = 1
    /\ buf[5] = 1 /\ buf[6] = 0
    /\ buf[8] # crc8(<<buf[7]>>)
    /\ buf[9] # 255

\* C3: the frame of CmdPacket::new(GetDeviceState, p), len(p) < 65536, with
\* only its direction byte changed from 0 to 1, parses to DeviceState(p);
\* with any other opcode of the catalog it parses to UnknownType.
C3_RoundTrip ==
    (origin = "loopback" /\ result # None /\ Len(cmd.data) < 65536) =>
        /\ Len(buf) = Len(frame.val)
        /\ frame.val[4] = 0 /\ buf[4] = 1
        /\ \A i \in (1..8) \cup {Len(buf) - 1, Len(buf)} :
              i # 4 => buf[i] = frame.val[i]
        /\ IF cmd.id = GetDeviceState
           THEN result = DeviceState(cmd.data)
           ELSE cmd.id \in CommandIds /\ result = Err("UnknownType")

\* a 600-byte payload (length field 88, 2) made the round trip
C3_Witness ==
    /\ origin = "loopback"
    /\ cmd.id = GetDeviceState
    /\ Len(cmd.data) = 600
    /\ buf[5] = 88 /\ buf[6] = 2
    /\ result = DeviceState(cmd.data)

\* C8: on a buffer of at least 6 bytes parse makes no out-of-bounds access:
\* it returns Ok(DeviceState) or one of the six ParseError values.
C8_NoPanicFromSixBytes ==
    (Len(buf) >= 6 /\ result # None) =>
        result.tag \in {"DeviceState", "BadMagic", "BadDirection",
                        "InvalidLength", "Checksum", "BadTerminator",
                        "UnknownType"}

\* a 6-byte buffer with good magic and direction 1 was rejected by the
\* length check
C8_Witness ==
    /\ Len(buf) = 6
    /\ buf[1] = 81 /\ buf[2] = 120 /\ buf[4] = 1
    /\ buf[5] = 0 /\ buf[6] = 0
    /\ result = Err("InvalidLength")

\* C14 as stated: for every command encoded by to_vec, whatever the payload
\* length, the 16-bit little-endian length field at offsets 4-5 equals
\* len(payload), the checksum byte is crc8 of the payload alone, and to_vec
\* never returns an error.
C14_LengthFieldAlways ==
    frame # None =>
        /\ frame.tag = "Ok"
        /\ frame.val[5] + 256 * frame.val[6] = Len(cmd.data)
        /\ frame.val[Len(frame.val) - 1] = crc8(cmd.data)

\* C16: on a buffer of n >= 6 bytes with magic 0x51 0x78 and direction 1,
\* parse returns InvalidLength exactly when declared_length + 8 > n;
\* otherwise the checksum is the byte at offset 6 + declared_length, the
\* terminator the byte at offset 7 + declared_length, and the bytes after
\* the terminator are ignored: the result is that of the first
\* declared_length + 8 bytes alone.
C16_LengthCheck ==
    (result # None /\ Len(buf) >= 6
        /\ buf[1] = 81 /\ buf[2] = 120 /\ buf[4] = 1) =>
        LET declared == buf[5] + 256 * buf[6]
            n == Len(buf)
        IN  /\ result = Err("InvalidLength") <=> declared + 8 > n
            /\ declared + 8 <= n =>
                  LET sumOk == buf[7 + declared]
                                  = crc8(SubSeq(buf, 7, 6 + declared))
                  IN  /\ result = Err("Checksum") <=> ~sumOk
                      /\ result = Err("BadTerminator")
                            <=> (sumOk /\ buf[8 + declared] # 255)
                      /\ result = parse(SubSeq(buf, 1, 8 + declared))
                      /\ (sumOk /\ buf[8 + declared] = 255 /\ buf[3] = 163)
                            => result = DeviceState(SubSeq(buf, 7, 6 + declared))

\* a valid empty GetDeviceState frame followed by one more byte was accepted
C16_Witness ==
    /\ buf = <<81, 120, 163, 1, 0, 0, 0, 255, 255>>
    /\ result = DeviceState(<<>>)

\* C18: no frame made by the encoder is accepted by the decoder: for every
\* command c with a payload of at most 65535 bytes, parse(to_vec(c)) is
\* BadDirection(0), because to_vec writes direction 0 and the direction is
\* checked before the length, the checksum, the terminator and the opcode.
C18_EncoderFramesRejected ==
    (origin = "echo" /\ result # None /\ Len(cmd.data) <= 65535) =>
        /\ frame = to_vec(cmd)
        /\ buf = frame.val
        /\ buf[4] = 0
        /\ result = BadDirection(0)

\* the frame of a GetDeviceState command with 600 payload bytes, in all
\* other respects acceptable, was rejected for its direction
C18_Witness ==
    /\ origin = "echo"
    /\ cmd.id = GetDeviceState
    /\ Len(cmd.data) = 600
    /\ buf[Len(buf)] = 255
    /\ buf[Len(buf) - 1] = crc8(cmd.data)
    /\ result = BadDirection(0)

(***************************************************************************)
(* Properties of the rasterizer                                            *)
(***************************************************************************)

\* bit n of byte b
Bit(b, n) ==
    (b \div (2 ^ n)) % 2

C15_RowPayload ==
    (row_buf # None /\ row.width <= HORIZ_RESOLUTION) =>
        /\ row_buf.tag = "Ok"
        /\ Len(row_buf.val) = 48
        /\ \A b \in 0..47 :
              /\ row_buf.val[b + 1] \in 0..255
              /\ 8 * b >= row.width => row_buf.val[b + 1] = 0
              /\ Cardinality({n \in 0..7 : Bit(row_buf.val[b + 1], n) = 1})
                    = Cardinality({i \in (8 * b)..(8 * b + 7) :
                                      /\ i < row.width
                                      /\ row.rows[1][i + 1] < 127})
        /\ (\A i \in 1..row.width : row.rows[1][i] >= 127)
              => row_buf.val = [b \in 1..48 |-> 0]
        /\ row = OneRow([i \in 1..384 |-> 255])
              => row_buf.val = [b \in 1..48 |-> 0]
        /\ row = OneRow([i \in 1..384 |-> 0])
              => row_buf.val = [b \in 1..48 |-> 255]

\* a 384-wide row of intensity 126 except for 127 at column 0 was packed:
\* only the bit of column 0 is clear
C15_Witness ==
    /\ row = OneRow(Pattern(HORIZ_RESOLUTION, {0}, 127, 126))
    /\ row_buf.tag = "Ok"
    /\ row_buf.val[1] = 254
    /\ row_buf.val[48] = 255

(***************************************************************************)
(* The print job next to the notification listener                         *)
(* (v5g.rs:260-315 Driver::print; main.rs:111-182)                         *)
(***************************************************************************)

MaxHeight == 2
MaxImgWidth == 9
MaxNotify == 2

\* the image of width w and height h whose pixel (i, j) is dark (0) when
\* shade = 0, light (255) when shade = 1, and dark on even i + j when shade = 2
Shaded(w, h, shade) ==
    [width |-> w, height |-> h,
     rows |-> [j \in 1..h |-> [i \in 1..w |->
                 IF shade = 0 \/ (shade = 2 /\ (i + j) % 2 = 0)
                 THEN 0 ELSE 255]]]

\* small images, one full-width row, one row too wide for row_buf, and the
\* 11-row image whose stream of 720 bytes is a whole number of chunks
Images ==
    {Shaded(w, h, shade) :
        w \in 0..MaxImgWidth, h \in 0..MaxHeight, shade \in 0..2}
        \cup {OneRow(Pattern(HORIZ_RESOLUTION, {0, 8, 383}, 0, 255)),
              OneRow(Pattern(HORIZ_RESOLUTION + 1, {}, 0, 255)),
              Shaded(1, 11, 2)}

\* the images printed while the listener is watched: no row, and one row
ListenerImages ==
    {Shaded(0, 0, 0), Shaded(1, 1, 0), Shaded(2, 1, 2)}

OtherSettings ==
    [energy |-> 20000, print_mode |-> Text, print_speed |-> 30,
     feeds_after |-> 0, quality |-> 1]

\* notifications the device may push: the frame of tests::test_parse_notify,
\* the same with a wrong checksum, and one cut after its first byte
NotifyFrames ==
    {<<81, 120, 163, 1, 3, 0, 0, 1, 95, 143, 255>>,
     <<81, 120, 163, 1, 3, 0, 0, 1, 95, 144, 255>>,
     <<81>>}

\* the error of peripheral.write
TransportError ==
    [tag |-> "TransportError", val |-> <<>>]

\* info!() evaluated its arguments or not
NotLogged ==
    [tag |-> "NotLogged", val |-> <<>>]

\* the job before its first step
InitJob ==
    /\ \/ job = "driver" /\ settings \in {DefaultSettings, OtherSettings}
       \/ job = "main" /\ settings = DefaultSettings
    /\ cmds = None
    /\ stream = None
    /\ pc = "start"
    /\ k = 0
    /\ inFlight = {}
    /\ written = <<>>
    /\ slept = 0
    /\ ret = None

\* the job alone
InitPrintJob ==
    /\ img \in Images
    /\ InitJob
    /\ ListenerIdle
    /\ CodecIdle
    /\ CatalogIdle
    /\ RasterIdle

\* the job with the listener task spawned before it (main.rs:111-122)
InitPrint ==
    /\ img \in ListenerImages
    /\ InitJob
    /\ logInfo \in BOOLEAN
    /\ inbound = <<>>
    /\ pushed = 0
    /\ closed = FALSE
    /\ lpc = "waiting"
    /\ decoded = <<>>
    /\ CodecIdle
    /\ CatalogIdle
    /\ RasterIdle

\* the in-flight writes once write(chunk c) was called
StartWrite(fl, c) ==
    fl \cup {c}

\* AfterWrite for a write that was started and not awaited
AfterWrite_Detached(fl, c) ==
    fl

\* the in-flight writes once `.await` on write(chunk c) returned
AfterWrite(fl, c) ==
    fl \ {c}

\* v5g.rs:264-309 / main.rs:128-177: build the command list, encode it, and
\* call write on the first chunk; a panic in the row packing unwinds the job
Begin ==
    /\ pc = "start"
    /\ LET built == IF job = "driver" THEN PrintCmds(img, settings)
                    ELSE MainCmds(img)
           encoded == Stream(built)
       IN  /\ cmds' = built
           /\ stream' = encoded
           /\ IF encoded.tag = "Panic"
              THEN /\ pc' = "panicked"
                   /\ UNCHANGED <<inFlight, ret>>
              ELSE IF encoded.tag # "Ok"
              THEN /\ pc' = "returned"
                   /\ ret' = encoded
                   /\ UNCHANGED inFlight
              ELSE IF NumChunks(encoded.val) = 0
              THEN /\ pc' = "returned"
                   /\ ret' = Ok(<<>>)
                   /\ UNCHANGED inFlight
              ELSE /\ pc' = "writing"
                   /\ inFlight' = StartWrite(inFlight, 0)
                   /\ UNCHANGED ret
    /\ UNCHANGED <<img, settings, job, k, written, slept,
                   codecVars, catalogVars, rasterVars, listenerVars>>

\* the write of chunk k completes with Ok: the job goes to sleep
WriteOk ==
    /\ pc = "writing"
    /\ written' = Append(written, Chunk(stream.val, k))
    /\ inFlight' = AfterWrite(inFlight, k)
    /\ pc' = "sleeping"
    /\ UNCHANGED <<img, settings, job, cmds, stream, k, slept, ret,
                   codecVars, catalogVars, rasterVars, listenerVars>>

\* WriteErr that drops the error and carries on with the loop
WriteErr_Ignored ==
    /\ pc = "writing"
    /\ inFlight' = AfterWrite(inFlight, k)
    /\ pc' = "sleeping"
    /\ UNCHANGED <<img, settings, job, cmds, stream, k, written, slept, ret,
                   codecVars, catalogVars, rasterVars, listenerVars>>

\* the write of chunk k completes with Err: `?` returns it
WriteErr ==
    /\ pc = "writing"
    /\ inFlight' = AfterWrite(inFlight, k)
    /\ ret' = TransportError
    /\ pc' = "returned"
    /\ UNCHANGED <<img, settings, job, cmds, stream, k, written, slept,
                   codecVars, catalogVars, rasterVars, listenerVars>>

\* the pacing delay elapses: write is called on the next chunk, or the loop
\* is over and the job returns Ok(())
SleepElapsed ==
    /\ pc = "sleeping"
    /\ slept' = slept + 1
    /\ k' = k + 1
    /\ IF k + 1 < NumChunks(stream.val)
       THEN /\ inFlight' = StartWrite(inFlight, k + 1)
            /\ pc' = "writing"
            /\ UNCHANGED ret
       ELSE /\ ret' = Ok(<<>>)
            /\ pc' = "returned"
            /\ UNCHANGED inFlight
    /\ UNCHANGED <<img, settings, job, cmds, stream, written,
                   codecVars, catalogVars, rasterVars, listenerVars>>

\* main.rs:182 (or a `?` before it): main returns, the runtime shuts down
\* and drops the spawned listener task at its await
MainExit ==
    /\ job = "main"
    /\ pc \in {"returned", "panicked"}
    /\ pc' = "exited"
    /\ lpc' = IF lpc = "waiting" THEN "cancelled" ELSE lpc
    /\ UNCHANGED <<img, settings, job, cmds, stream, k, inFlight, written,
                   slept, ret, logInfo, inbound, pushed, closed, decoded,
                   codecVars, catalogVars, rasterVars>>

\* the transport pushes a notification into the stream
Push ==
    /\ ~closed
    /\ pushed < MaxNotify
    /\ \E f \in NotifyFrames : inbound' = Append(inbound, f)
    /\ pushed' = pushed + 1
    /\ UNCHANGED <<logInfo, closed, lpc, decoded, codecVars, catalogVars, rasterVars, jobVars>>

\* the connection closes: the notification stream ends
Close ==
    /\ ~closed
    /\ closed' = TRUE
    /\ UNCHANGED <<logInfo, inbound, pushed, lpc, decoded,
                   codecVars, catalogVars, rasterVars, jobVars>>

\* main.rs:114-121: notify_stream.next() yields Some(dat); info!() parses
\* dat.value when the info level is enabled; a panic in parse ends the task
Take ==
    /\ lpc = "waiting"
    /\ inbound # <<>>
    /\ LET r == IF logInfo THEN parse(Head(inbound)) ELSE NotLogged
       IN  /\ decoded' = Append(decoded, r)
           /\ lpc' = IF r = Panic THEN "panicked" ELSE "waiting"
    /\ inbound' = Tail(inbound)
    /\ UNCHANGED <<logInfo, pushed, closed, codecVars, catalogVars, rasterVars, jobVars>>

\* main.rs:114: notify_stream.next() yields None, the loop is over
End ==
    /\ lpc = "waiting"
    /\ inbound = <<>>
    /\ closed
    /\ lpc' = "ended"
    /\ UNCHANGED <<logInfo, inbound, pushed, closed, decoded,
                   codecVars, catalogVars, rasterVars, jobVars>>

Next ==
    \/ Begin
    \/ WriteOk
    \/ WriteErr
    \/ SleepElapsed
    \/ MainExit
    \/ Push
    \/ Close
    \/ Take
    \/ End

Spec ==
    InitPrint /\ [][Next]_vars

NextJob ==
    \/ Begin
    \/ WriteOk
    \/ WriteErr
    \/ SleepElapsed
    \/ MainExit

SpecJob ==
    InitPrintJob /\ [][NextJob]_vars

(***************************************************************************)
(* Properties of the print job                                             *)
(***************************************************************************)

\* C5: for a raster of height h (width <= 384) the job emits exactly 9 + h
\* commands: Quality, Lattice(start), Energy, PrintMode, PrintSpeed, one
\* BitmapData per row from row 0 to row h - 1, Paper [0x30, 0x00] twice,
\* Lattice(end), GetDeviceState [0x00]; their frames follow one another in
\* the outbound stream in that order with nothing between them.
C5_CommandOrder ==
    (pc # "start" /\ img.width <= HORIZ_RESOLUTION) =>
        LET h == img.height
            list == cmds.val
            \* where the frame of the n-th command starts in the stream
            off(n) == IF n <= 5 THEN <<0, 9, 28, 38, 47>>[n]
                      ELSE IF n <= 5 + h THEN 56 * (n - 5)
                      ELSE 56 + 56 * h + <<0, 10, 20, 39>>[n - 5 - h]
        IN  /\ cmds.tag = "Ok"
            /\ Len(list) = 9 + h
            /\ list[1] = [id |-> 164, data |-> <<54>>]
            /\ list[2] = [id |-> 166, data |->
                            <<170, 85, 23, 56, 68, 95, 95, 95, 68, 56, 44>>]
            /\ list[3] = [id |-> 175, data |-> <<16, 39>>]
            /\ list[4] = [id |-> 190, data |-> <<0>>]
            /\ list[5] = [id |-> 189, data |-> <<10>>]
            /\ \A j \in 0..(h - 1) :
                  list[6 + j] = [id |-> 162, data |-> PackRow(img, j).val]
            /\ list[6 + h] = [id |-> 161, data |-> <<48, 0>>]
            /\ list[7 + h] = [id |-> 161, data |-> <<48, 0>>]
            /\ list[8 + h] = [id |-> 166, data |->
                            <<170, 85, 23, 0, 0, 0, 0, 0, 0, 0, 23>>]
            /\ list[9 + h] = [id |-> 163, data |-> <<0>>]
            /\ stream.tag = "Ok"
            /\ Len(stream.val) = 104 + 56 * h
            /\ \A n \in 1..(9 + h) :
                  SubSeq(stream.val, off(n) + 1,
                         off(n) + 8 + Len(list[n].data))
                      = to_vec(list[n]).val

\* a job of Driver::print on a 2-row image whose rows differ ran to its end
C5_Witness ==
    /\ job = "driver"
    /\ img = Shaded(2, 2, 2)
    /\ pc = "returned"
    /\ ret = Ok(<<>>)
    /\ Len(cmds.val) = 11
    /\ cmds.val[6] # cmds.val[7]

\* C6: when no write fails, a stream of length L is written in exactly
\* ceil(L / 60) chunks, each non-empty and at most 60 bytes, all but the last
\* exactly 60, and the chunks in write order concatenate to the stream.
C6_Chunking ==
    (pc \in {"returned", "exited"} /\ ret = Ok(<<>>)) =>
        LET L == Len(stream.val)
            c == Len(written)
        IN  /\ c * 60 >= L
            /\ (c - 1) * 60 < L
            /\ \A i \in 1..c :
                  /\ Len(written[i]) >= 1
                  /\ Len(written[i]) <= 60
                  /\ i < c => Len(written[i]) = 60
            /\ c > 0 => (c - 1) * 60 + Len(written[c]) = L
            /\ \A n \in 1..L :
                  written[(n - 1) \div 60 + 1][((n - 1) % 60) + 1] = stream.val[n]

\* a 216-byte stream went out in 4 chunks, the last of 36 bytes
C6_Witness ==
    /\ pc = "returned"
    /\ ret = Ok(<<>>)
    /\ Len(stream.val) = 216
    /\ Len(written) = 4
    /\ Len(written[4]) = 36

\* C7: when the write of chunk k fails the job returns that error, the
\* chunks written are exactly chunks 0..k-1 in order and none is written
\* afterwards; the job returns Ok only when every chunk was written.
C7_FailureAborts ==
    /\ [](ret = TransportError =>
            /\ pc \in {"returned", "exited"}
            /\ inFlight = {}
            /\ k * 60 < Len(stream.val)
            /\ Len(written) = k
            /\ \A i \in 1..k :
                  written[i] = SubSeq(stream.val, 60 * (i - 1) + 1, 60 * i))
    /\ [](ret = Ok(<<>>) => Len(written) * 60 >= Len(stream.val))
    /\ [][(pc = "writing" /\ inFlight' # inFlight /\ written' = written)
            => (ret' = TransportError /\ pc' = "returned")]_vars
    /\ [][ret = TransportError
            => (written' = written /\ inFlight' = {} /\ ret' = ret)]_vars

\* the write of chunk 2 failed after chunks 0 and 1 were written
C7_Witness ==
    /\ ret = TransportError
    /\ pc = "returned"
    /\ k = 2
    /\ Len(written) = 2
    /\ Len(stream.val) > 180

C20_MainEqualsDriver ==
    (pc # "start") =>
        LET ofDriver == PrintCmds(img, settings)
            ofMain == MainCmds(img)
        IN  /\ job \in {"driver", "main"}
            /\ ofDriver = ofMain
            /\ cmds = ofDriver
            /\ cmds = ofMain
            /\ stream = Stream(ofMain)
            /\ stream.tag = "Ok" =>
                  /\ \A i \in 1..Len(written) :
                        written[i] = Chunk(Stream(ofDriver).val, i - 1)
                  /\ ret = TransportError =>
                        (Len(written) = k /\ k < NumChunks(stream.val))
                  /\ ret = Ok(<<>>) => Len(written) = NumChunks(stream.val)
            /\ stream.tag = "Panic" => (written = <<>> /\ ret = None)

\* the inline job of main stopped at the failing write of chunk 1, with
\* chunk 0 of the stream of Driver::print written
C20_Witness ==
    /\ job = "main"
    /\ img = Shaded(2, 2, 2)
    /\ ret = TransportError
    /\ k = 1
    /\ written = <<Chunk(Stream(PrintCmds(img, OtherSettings)).val, 0)>>
    /\ Len(written[1]) = 60

(***************************************************************************)
(* Properties of the job running next to the listener                      *)
(***************************************************************************)

\* C9 as stated: decoding never aborts the listener: it takes every frame
\* pushed, also after one that failed to decode, and its loop ends only
\* when the notification stream has ended.
C9_ListenerNeverAborts ==
    /\ lpc \in {"waiting", "ended"}
    /\ lpc = "ended" => (closed /\ inbound = <<>>)

\* C10: within a job the writes are strictly sequential: chunk k is in
\* flight only after chunks 0..k-1 were written and k pacing delays elapsed,
\* so at most one chunk is in flight, also with the listener interleaved.
C10_OneInFlight ==
    /\ Cardinality(inFlight) <= 1
    /\ \A c \in inFlight :
          /\ pc = "writing"
          /\ c = k
          /\ Len(written) = c
          /\ slept = c

\* chunk 1 is in flight after the listener decoded a notification
C10_Witness ==
    /\ inFlight = {1}
    /\ Len(written) = 1
    /\ slept = 1
    /\ lpc = "waiting"
    /\ Len(decoded) = 1
    /\ decoded[1].tag = "DeviceState"

(***************************************************************************)
(* Catalog: every constructor of CmdPacket on its whole argument type      *)
(***************************************************************************)

\* the constructor calls: quality(u8), energy(u16), print_speed(u8),
\* print_mode(PrintMode), lattice_start(), lattice_end()
Calls ==
    {[fn |-> "quality", arg |-> a] : a \in 0..255}
        \cup {[fn |-> "energy", arg |-> a] : a \in 0..65535}
        \cup {[fn |-> "print_speed", arg |-> a] : a \in 0..255}
        \cup {[fn |-> "print_mode", arg |-> a] : a \in {Image, Text}}
        \cup {[fn |-> f, arg |-> 0] : f \in {"lattice_start", "lattice_end"}}

InitCatalog ==
    /\ call \in Calls
    /\ made = NoCmd
    /\ crcIn = <<>>
    /\ crcOut = None
    /\ CodecIdle
    /\ RasterIdle
    /\ JobIdle
    /\ ListenerIdle

\* the constructor runs
Construct ==
    /\ made = NoCmd
    /\ made' = CASE call.fn = "quality" -> quality(call.arg)
                 [] call.fn = "energy" -> Ok(energy(call.arg))
                 [] call.fn = "print_speed" -> Ok(print_speed(call.arg))
                 [] call.fn = "print_mode" -> Ok(print_mode(call.arg))
                 [] call.fn = "lattice_start" -> Ok(lattice_start)
                 [] call.fn = "lattice_end" -> Ok(lattice_end)
    /\ UNCHANGED <<call, crcIn, crcOut, codecVars, rasterVars, jobVars, listenerVars>>

NextCatalog ==
    Construct

SpecCatalog ==
    InitCatalog /\ [][NextCatalog]_vars

\* C11: quality(level) returns (Quality = 0xA4, [0x31 + level]) for level
\* in 1..5 and panics, making no command, for every other u8 level;
\* 0x31 + level fits a byte on the accepted levels.
C11_QualityDomain ==
    (call.fn = "quality" /\ made # NoCmd) =>
        IF call.arg >= 1 /\ call.arg <= 5
        THEN /\ made = [tag |-> "Ok",
                        val |-> [id |-> 164, data |-> <<49 + call.arg>>]]
             /\ 49 + call.arg <= 255
        ELSE /\ made.tag = "Panic"
             /\ made.val.data = <<>>

\* quality(6) panicked
C11_Witness ==
    /\ call = [fn |-> "quality", arg |-> 6]
    /\ made.tag = "Panic"

\* C12: energy(v) is (Energy = 0xAF, [v mod 256, v div 256]) for every u16 v,
\* none rejected; print_speed(s) is (PrintSpeed = 0xBD, [s]); print_mode is
\* (PrintMode = 0xBE, [0]) for Image and [1] for Text; lattice_start and
\* lattice_end are opcode Lattice = 0xA6 with their fixed 11-byte payloads.
C12_CatalogPayloads ==
    (call.fn \notin {"quality", "off"} /\ made # NoCmd) =>
        /\ made.tag = "Ok"
        /\ call.fn = "energy" =>
              made.val = [id |-> 175,
                          data |-> <<call.arg % 256, call.arg \div 256>>]
        /\ call.fn = "print_speed" =>
              made.val = [id |-> 189, data |-> <<call.arg>>]
        /\ call.fn = "print_mode" =>
              /\ made.val.id = 190
              /\ call.arg = Image => made.val.data = <<0>>
              /\ call.arg = Text => made.val.data = <<1>>
        /\ call.fn = "lattice_start" =>
              /\ made.val.id = 166
              /\ Len(made.val.data) = 11
              /\ made.val.data = <<170, 85, 23, 56, 68, 95, 95, 95, 68, 56, 44>>
        /\ call.fn = "lattice_end" =>
              /\ made.val.id = 166
              /\ Len(made.val.data) = 11
              /\ made.val.data = <<170, 85, 23, 0, 0, 0, 0, 0, 0, 0, 23>>

\* energy(10000) made the payload 0x10, 0x27
C12_Witness ==
    /\ call = [fn |-> "energy", arg |-> 10000]
    /\ made = [tag |-> "Ok", val |-> [id |-> 175, data |-> <<16, 39>>]]

(***************************************************************************)
(* Checksum: crc8 on bounded byte strings and their concatenations         *)
(***************************************************************************)

MaxCrcLen == 2

\* every byte string of one byte
SingleBytes ==
    {<<b>> : b \in 0..255}

CrcInputs ==
    SeqsUpTo({0, 1, 6, 255}, MaxCrcLen) \cup SingleBytes

InitCrc ==
    /\ crcIn \in (CrcInputs \cup {Ramp(600)}) \X CrcInputs
    /\ crcOut = None
    /\ call = [fn |-> "off", arg |-> 0]
    /\ made = NoCmd
    /\ CodecIdle
    /\ RasterIdle
    /\ JobIdle
    /\ ListenerIdle

\* crc8 is called on p1 (twice), on p2, on p1 ++ p2 and on p2 ++ p1
Checksum ==
    /\ crcOut = None
    /\ crcOut' = Ok([a |-> crc8(crcIn[1]),
                     again |-> crc8(crcIn[1]),
                     b |-> crc8(crcIn[2]),
                     ab |-> crc8(crcIn[1] \o crcIn[2]),
                     ba |-> crc8(crcIn[2] \o crcIn[1])])
    /\ UNCHANGED <<call, made, crcIn, codecVars, rasterVars, jobVars, listenerVars>>

NextCrc ==
    Checksum

SpecCrc ==
    InitCrc /\ [][NextCrc]_vars

\* C13: crc8 is the left fold crc := CRC_TABLE[crc XOR byte] from 0:
\* crc8([]) = 0, crc8(p ++ [b]) = CRC_TABLE[crc8(p) XOR b], a second call on
\* the same bytes gives the same value, and the value depends on the order
\* of the bytes (crc8([0, 1]) = 7 and crc8([1, 0]) = 21).
C13_CrcFold ==
    crcOut # None =>
        LET p1 == crcIn[1]
            p2 == crcIn[2]
            out == crcOut.val
        IN  /\ out.a \in 0..255
            /\ p1 = <<>> => out.a = 0
            /\ Len(p2) = 1 => out.ab = CRC_TABLE[Xor(out.a, p2[1]) + 1]
            /\ Len(p1) = 1 => out.ba = CRC_TABLE[Xor(out.b, p1[1]) + 1]
            /\ out.again = out.a
            /\ (p1 = <<0>> /\ p2 = <<1>>) => (out.ab = 7 /\ out.ba = 21)
            /\ (p1 = <<48>> /\ p2 = <<0>>) => out.ab = 249

\* crc8 of [0, 1] and of [1, 0] were computed and differ
C13_Witness ==
    /\ crcIn = <<<<0>>, <<1>>>>
    /\ crcOut.tag = "Ok"
    /\ crcOut.val.ab = 7
    /\ crcOut.val.ba = 21

\* C17 as stated: for every p1 and every non-empty p2,
\* crc8(p1 ++ p2) # crc8(p1).
C17_AppendChanges ==
    (crcOut # None /\ crcIn[2] # <<>>) => crcOut.val.ab # crcOut.val.a

\* C17 amended: for every p1 and every one-byte p2 = [b],
\* crc8(p1 ++ p2) # crc8(p1) except for exactly one byte b, the one with
\* CRC_TABLE[crc8(p1) XOR b] = crc8(p1): b = 0 when crc8(p1) = 0 (so
\* crc8([0]) = crc8([]) = 0) and b = 6 when crc8(p1) = 7.
C17_AppendChangesButOne ==
    (crcOut # None /\ Len(crcIn[2]) = 1) =>
        LET a == crcOut.val.a
            b == crcIn[2][1]
            idx == {i \in 0..255 : CRC_TABLE[i + 1] = a}
        IN  /\ Cardinality(idx) = 1
            /\ crcOut.val.ab = a <=> Xor(a, b) \in idx
            /\ a = 0 => (crcOut.val.ab = a <=> b = 0)
            /\ a = 7 => (crcOut.val.ab = a <=> b = 6)

\* crc8([1]) = 7 and appending 6 left it at 7; appending 0 did not
C17_Witness ==
    /\ crcIn = <<<<1>>, <<6>>>>
    /\ crcOut.tag = "Ok"
    /\ crcOut.val.a = 7
    /\ crcOut.val.ab = 7

====
